---- MODULE Spec2Model ----
(***************************************************************************)
(* ClayRS recommendation orchestration (clayrs/recsys/recsys.py).          *)
(*                                                                         *)
(* ContentBasedRS is modelled as a state machine.  One call of fit, rank,  *)
(* predict, fit_predict or fit_rank is a sequence of steps: the code       *)
(* before the per-user loop, one step per iteration of the loop (the       *)
(* iteration order of a Python set is not fixed, so the next user is any   *)
(* user still to do), and the code after the loop.  A call that raises     *)
(* ends in the step that raises.  GraphBasedRS has no loop of its own: one *)
(* call of its predict or rank is one step.                                *)
(*                                                                         *)
(* The evaluation objects (clayrs/evaluation) have a specification of      *)
(* their own, SpecEval: an EvalModel is constructed and fitted, one call   *)
(* of fit being one step, or a Split is read and assigned through its      *)
(* attribute names.                                                        *)
(***************************************************************************)
EXTENDS Integers, Sequences, FiniteSets, TLC

\* ------------------------------------------------------------------ bounds

\* Number of calls made on one recommender, or on one EvalModel, in a behaviour.
MaxCalls == 2

\* Largest user_id_list a caller passes.
MaxList == 1

\* Largest number of predictions, and of ground truths, handed to an EvalModel.
MaxFolds == 1

\* ------------------------------------------------------ identifiers, stores

\* The string form of the user indices, as Python's str() gives it.
DecStr == <<"1", "2", "3", "4">>

UserIdx == {1, 2}

\* User ids as the stores hold them: strings.
Users == {DecStr[n] : n \in UserIdx}

Items == {"a"}

\* An identifier as a caller may pass it in user_id_list: <<"str", n>> is the
\* Python string DecStr[n], <<"int", n>> is the Python int n.  The two are
\* different elements of a Python set.  Callers pass the strings, and the
\* number of the first user.
RawIds == ({"str"} \X UserIdx) \cup {<<"int", 1>>}

\* str(user_id)
str(raw) == DecStr[raw[2]]

\* set(ratings.user_id_column): the users with at least one interaction,
\* as the strings the store holds.
user_id_column(ratings) == {<<"str", n>> : n \in {m \in UserIdx : ratings[DecStr[m]] # {}}}

\* ratings.get_user_interactions(user_id): the items the user interacted with.
get_user_interactions(ratings, user_id) == ratings[user_id]

\* A Ratings store: the items each user has interacted with.
Stores == [Users -> SUBSET Items]

\* ------------------------------------------------------ algorithm instances

\* A content-based algorithm instance: the user whose rated items it last
\* processed and the user it was last fitted for ("-" is none).  None is the
\* registry's sentinel.
NoUser == "-"
FreshAlg == [kind |-> "alg", procFor |-> NoUser, fitFor |-> NoUser]
None == [kind |-> "None", procFor |-> NoUser, fitFor |-> NoUser]

\* copy.deepcopy: a new object with the same state.
deepcopy(a) == [kind |-> a.kind, procFor |-> a.procFor, fitFor |-> a.fitFor]

\* alg.process_rated(user_train, handle), when it does not raise.
process_rated(a, u) == [a EXCEPT !.procFor = u]

\* alg.fit(), when it does not raise: fitted on what was processed.
alg_fit(a) == [a EXCEPT !.fitFor = a.procFor]

\* The state of the instance after process_rated or fit raised UserSkipAlgFit
\* at the place `at`.
AfterSkip(a, u, at) == IF at = "process_rated" THEN a ELSE process_rated(a, u)

SkipPlaces == {"process_rated", "fit"}

\* --------------------------------------------------------------- candidates

NoFilter == [none |-> TRUE, items |-> {}]
FilterOf(s) == [none |-> FALSE, items |-> s]

\* TestRatingsMethodology.filter_single: the items the user rated in the test store.
filter_single(user_id, train, test) == test[user_id]

Methodologies == {"None", "TestRatings"}

\* Variant of filter_list: the two stores are handed over in the wrong order.
filter_list_Swapped(m, user_id, train, test) ==
    IF m = "None" THEN NoFilter ELSE FilterOf(filter_single(user_id, test, train))

\* filter_list as the loop computes it.
filter_list(m, user_id, train, test) ==
    IF m = "None" THEN NoFilter ELSE FilterOf(filter_single(user_id, train, test))

\* The items an algorithm may score for a user: the filter, or without one the
\* items the user has not rated in train.
Candidates(f, user_train) == IF f.none THEN Items \ user_train ELSE f.items

\* The item sequences without repetition over subsets of a candidate set.
Emissions(c) ==
    {s \in UNION {[1..k -> c] : k \in 0..Cardinality(c)} :
        \A i, j \in DOMAIN s : i # j => s[i] # s[j]}

\* The score the model of a user gives an item: a fixed table, the same in
\* every call.
Score(u, i) == IF i = "a" THEN 2 ELSE 1

\* The records of one user's predict/rank call: <<user, item, score>>.
Records(u, s) == [i \in DOMAIN s |-> <<u, s[i], Score(u, s[i])>>]

\* n_recs: None (given = FALSE) or a number.
NoN == [given |-> FALSE, n |-> 0]
NRecs == {NoN} \cup {[given |-> TRUE, n |-> k] : k \in {1, 2}}

\* The items of e in descending order of score.
Sorted(u, e) ==
    CHOOSE s \in Emissions(e) :
        /\ Len(s) = Cardinality(e)
        /\ \A i, j \in DOMAIN s : i < j => Score(u, s[i]) >= Score(u, s[j])

\* The top n of a ranking, all of it when n is None.
Cut(s, n) == IF n.given /\ n.n < Len(s) THEN SubSeq(s, 1, n.n) ELSE s

\* What the model of user u emits over the items e it can score: predict
\* scores them in any order, rank sorts them by score and keeps the top n.
Emit(call, u, e, n) ==
    IF call = "predict"
    THEN {s \in Emissions(e) : Len(s) = Cardinality(e)}
    ELSE {Cut(Sorted(u, e), n)}

\* Variant of extend: the list is replaced by the user's records.
extend_Overwrite(l, recs) == recs

\* rank.extend(user_rank) / pred.extend(user_pred)
extend(l, recs) == l \o recs

\* Prediction.from_list / Rank.from_list: the container of the records, in order.
from_list(kind, l) == [kind |-> kind, recs |-> l]

NoResult == [kind |-> "none", recs |-> <<>>]

\* -------------------------------------------------------------------- state

VARIABLES
    train_set,      \* ContentBasedRS.__train_set
    skip,           \* users for whom process_rated/fit raises UserSkipAlgFit
    algKind,        \* what the chosen algorithm supports: both, predict, rank
    algorithm,      \* the base algorithm instance held by the recommender
    user_fit_dic,   \* ContentBasedRS._user_fit_dic
    calls,          \* calls started so far
    pc,             \* "idle" between calls, "loop" in the per-user loop,
                    \* "done" when the call has ended and the caller has its outcome
    op,             \* the operation of the current (or last) call
    test_set,       \* argument of the call
    methodology,    \* argument of the call
    save_fit,       \* argument of the call
    user_id_list,   \* argument of the call: None (given = FALSE) or the ids
    promised,       \* the last completed fit() or default fit_rank() that fitted a user
    all_users,      \* the evaluated users of the call (raw identifiers)
    todo,           \* the part of all_users the loop has not reached
    out,            \* the local list pred / rank
    handle,         \* loaded_items_interface: "unbound" or "loaded"
    nLoad,          \* _load_available_contents calls of this call
    nRelease,       \* del loaded_items_interface + gc.collect() of this call
    nUserOps,       \* loop iterations of this call
    log,            \* what the call did per user: <<event, user>>
    emitted,        \* the records each user's predict/rank emitted in this call
    outcome,        \* "running", "returned" or the name of the error raised
    ret,            \* the value returned to the caller
    rs,             \* the recommender constructed: "cb" ContentBasedRS, "graph" GraphBasedRS
    graph,          \* GraphBasedRS.__graph: the interactions the graph records
    n_recs,         \* argument of the call
    algcalls,       \* the predict/rank calls made on user models in this call
    gtrace,         \* the calls a GraphBasedRS call made, in order, and its warning
    obj,            \* the evaluation object at work: "none", "EvalModel" or "Split"
    ctor,           \* the arguments of EvalModel.__init__
    constructed,    \* whether __init__ has returned
    pred_list,      \* EvalModel._pred_list
    truth_list,     \* EvalModel._truth_list
    metric_list,    \* EvalModel._metric_list
    str_filter,     \* whether filter_ratings takes string ids as well as indices
    ecalls,         \* calls made on the EvalModel since its construction
    fit_args,       \* the EvalModel.fit calls so far: how many, how many with a
                    \* user_id_list, and the user_id_list of the last one
    eoutcome,       \* how the last call on the EvalModel ended
    handed,         \* the lists EvalModel.fit handed to the MetricEvaluator
    performed,      \* the metric.perform calls of the last fit
    users_result,   \* the users with a row in the users result of the last fit
    sys_result,     \* the number of fold rows in the system result of the last fit
    yaml_report_result, \* EvalModel._yaml_report_result
    split,          \* the __dict__ of a Split: first and second
    assigned        \* the last assignment to an attribute of the Split

\* The variables of the recommenders and those of the evaluation objects.
rsvars == <<train_set, skip, algKind, algorithm, user_fit_dic, calls, pc, op,
            test_set, methodology, save_fit, user_id_list, promised, all_users, todo, out, handle,
            nLoad, nRelease, nUserOps, log, emitted, outcome, ret, rs, graph, n_recs,
            algcalls, gtrace>>

evalvars == <<obj, ctor, constructed, pred_list, truth_list, metric_list, str_filter, ecalls,
              fit_args, eoutcome, handed, performed, users_result, sys_result, yaml_report_result,
              split, assigned>>

vars == <<rsvars, evalvars>>

\* What no call on a recommender changes: what it was constructed with, and
\* the evaluation objects.
env == <<train_set, skip, algKind, rs, graph, evalvars>>

NoStore == [u \in Users |-> {}]
NoList == [given |-> FALSE, ids |-> {}]
NoEmitted == [u \in Users |-> <<>>]

\* A Ratings, Prediction or Rank: its records <<user, item, score>> and its
\* user_map, from the string id of a user to its index.
EmptyRatings == [recs |-> <<>>, user_map |-> <<>>]

NoCtor == [pred |-> <<>>, truth |-> <<>>, metrics |-> <<>>]
NoHanded == [pred |-> <<>>, truth |-> <<>>]
NoReport == [set |-> FALSE, rows |-> 0]
NoFits == [n |-> 0, subset |-> 0, last |-> NoList]
NoAssign == [name |-> "-", value |-> EmptyRatings,
             before |-> [first |-> EmptyRatings, second |-> EmptyRatings]]

\* No evaluation object is at work.
EvalOff ==
    /\ obj = "none"
    /\ ctor = NoCtor
    /\ constructed = FALSE
    /\ pred_list = <<>>
    /\ truth_list = <<>>
    /\ metric_list = <<>>
    /\ str_filter = FALSE
    /\ ecalls = 0
    /\ fit_args = NoFits
    /\ eoutcome = "none"
    /\ handed = NoHanded
    /\ performed = <<>>
    /\ users_result = {}
    /\ sys_result = 0
    /\ yaml_report_result = NoReport
    /\ split = [first |-> EmptyRatings, second |-> EmptyRatings]
    /\ assigned = NoAssign

Init ==
    /\ EvalOff
    /\ \/ /\ rs = "cb"
          /\ train_set \in Stores
          /\ skip \in SUBSET Users
          /\ algKind \in {"both", "predict", "rank"}
          /\ graph = NoStore
       \/ /\ rs = "graph"
          /\ graph \in Stores
          /\ train_set = NoStore
          /\ skip = {}
          /\ algKind \in {"both", "predict", "rank"}
    /\ algorithm = FreshAlg
    /\ user_fit_dic = <<>>
    /\ calls = 0
    /\ pc = "idle"
    /\ op = "none"
    /\ test_set = NoStore
    /\ methodology = "None"
    /\ save_fit = FALSE
    /\ user_id_list = NoList
    /\ promised = "none"
    /\ all_users = {}
    /\ todo = {}
    /\ out = <<>>
    /\ handle = "unbound"
    /\ nLoad = 0
    /\ nRelease = 0
    /\ nUserOps = 0
    /\ log = {}
    /\ emitted = NoEmitted
    /\ outcome = "returned"
    /\ ret = NoResult
    /\ n_recs = NoN
    /\ algcalls = {}
    /\ gtrace = <<>>

\* Variant of DictSet: the assignment drops every other key.
DictSet_Alone(d, k, v) == [x \in {k} |-> v]

\* dict[key] = value
DictSet(d, k, v) == [x \in (DOMAIN d) \cup {k} |-> IF x = k THEN v ELSE d[x]]

\* Variant of DictGet: an absent key falls back to the base algorithm.
DictGet_Default(d, k) == IF k \in DOMAIN d THEN d[k] ELSE FreshAlg

\* dict.get(key): None when the key is absent.
DictGet(d, k) == IF k \in DOMAIN d THEN d[k] ELSE None

\* The list that names the first user twice, as a number and as a string.
BothForms == {<<"int", 1>>, <<"str", 1>>}

\* The user_id_list arguments: None, a list with the given set of elements, of
\* at most MaxList elements, or the list BothForms.
UserLists ==
    {NoList} \cup
    {[given |-> TRUE, ids |-> s] :
        s \in {t \in SUBSET RawIds : Cardinality(t) <= MaxList} \cup {BothForms}}

\* Variant of resolve_users: the user list is ignored.
resolve_users_TestOnly(test, list) == user_id_column(test)

\* all_users as rank/predict/fit_predict/fit_rank resolve it.
resolve_users(test, list) ==
    IF list.given THEN list.ids ELSE user_id_column(test)

\* The arguments of a call: fit_predict/fit_rank take save_fit, rank/fit_rank
\* take n_recs.
Args(withSaveFit, withN) ==
    [test : Stores, m : Methodologies, list : UserLists,
     sf : IF withSaveFit THEN BOOLEAN ELSE {FALSE},
     n : IF withN THEN NRecs ELSE {NoN}]

Idle == pc = "idle" /\ calls < MaxCalls

\* self.algorithm._load_available_contents(...)
Load ==
    /\ handle' = "loaded"
    /\ nLoad' = nLoad + 1

\* del loaded_items_interface; gc.collect()
Release ==
    /\ handle' = "unbound"
    /\ nRelease' = nRelease + 1

\* A new call starts: the frame of the previous one is gone.
Enter(o, test, m, sf, list, n, users) ==
    /\ calls' = calls + 1
    /\ n_recs' = n
    /\ algcalls' = {}
    /\ gtrace' = <<>>
    /\ op' = o
    /\ test_set' = test
    /\ methodology' = m
    /\ save_fit' = sf
    /\ user_id_list' = list
    /\ all_users' = users
    /\ todo' = users
    /\ out' = <<>>
    /\ nUserOps' = 0
    /\ log' = {}
    /\ emitted' = NoEmitted
    /\ ret' = NoResult

\* The caller has taken the outcome of the call: the frame of the call, its
\* arguments and its locals are gone.
Discard ==
    /\ pc = "done"
    /\ pc' = "idle"
    /\ op' = "none"
    /\ test_set' = NoStore
    /\ methodology' = "None"
    /\ save_fit' = FALSE
    /\ user_id_list' = NoList
    /\ all_users' = {}
    /\ todo' = {}
    /\ out' = <<>>
    /\ handle' = "unbound"
    /\ nLoad' = 0
    /\ nRelease' = 0
    /\ nUserOps' = 0
    /\ log' = {}
    /\ emitted' = NoEmitted
    /\ outcome' = "returned"
    /\ ret' = NoResult
    /\ n_recs' = NoN
    /\ algcalls' = {}
    /\ gtrace' = <<>>
    /\ UNCHANGED <<env, algorithm, user_fit_dic, calls, promised>>

\* Whether the call fitted some user: process_rated and fit both completed.
FittedSome(l) == \E e \in l : e[1] \in {"fit:copy", "fit:base"} /\ <<"warning", e[2]>> \notin l

\* The NotFittedAlg message names fit() and fit_rank(): the last completed one
\* of the two, fit_rank() with its default arguments, that fitted some user.
Promise(o, sf, list, m, l, old) ==
    IF /\ o \in {"fit", "fit_rank"}
       /\ FittedSome(l)
       /\ o = "fit_rank" => (~sf /\ ~list.given /\ m = "TestRatings")
    THEN o ELSE old

\* Variants of Dispose: no handler at all; a handler for every exception
\* around the whole loop body.
Dispose_NoHandler(where, e) == "propagate"
Dispose_CatchAll(where, e) == "swallow"

\* What the loop body does with an exception: the try block around the copy,
\* process_rated and fit has one handler, for UserSkipAlgFit; the predict/rank
\* call of the algorithm is outside every try block.
Dispose(where, e) ==
    IF where = "try" /\ e = "UserSkipAlgFit" THEN "swallow" ELSE "propagate"

\* An exception leaves the call: nothing after the raising statement runs, the
\* caller gets no value.
Raise(e) ==
    /\ pc' = "done"
    /\ outcome' = e
    /\ ret' = NoResult

\* Variant of fit_OnSkip: the skipped user gets no entry.
fit_OnSkip_NoEntry(d, user_id) == d

\* fit(), line 130: the registry after a user was skipped.
fit_OnSkip(d, user_id) == DictSet(d, user_id, None)

\* ---------------------------------------------------------------------- fit

\* Variant of fit_users: only the first user of the train store.
fit_users_First(train) == {raw \in user_id_column(train) : raw[2] = 1}

\* fit(), line 119: the users of the loop.
fit_users(train) == user_id_column(train)

\* fit(user_id_list): fit is declared with self as its only parameter (line
\* 106), so a call that passes a subset of users raises TypeError before the
\* body runs.
fit_WithSubset ==
    /\ rs = "cb"
    /\ Idle
    /\ \E l \in UserLists \ {NoList} : Enter("fit", NoStore, "None", FALSE, l, NoN, {})
    /\ pc' = "done"
    /\ outcome' = "TypeError"
    /\ UNCHANGED <<env, algorithm, user_fit_dic, promised, handle, nLoad, nRelease>>

\* fit(), lines 113-116: load the items of the train store, start the loop.
fit_Begin ==
    /\ rs = "cb"
    /\ Idle
    /\ Enter("fit", NoStore, "None", FALSE, NoList, NoN, fit_users(train_set))
    /\ Load
    /\ pc' = "loop"
    /\ outcome' = "running"
    /\ UNCHANGED <<env, algorithm, user_fit_dic, promised, nRelease>>

\* fit(), lines 119-130: one user.
fit_User ==
    /\ pc = "loop" /\ op = "fit"
    /\ \E raw \in todo :
        LET user_id == DecStr[raw[2]]
            user_alg == deepcopy(algorithm)
            exc == IF user_id \in skip THEN "UserSkipAlgFit" ELSE "none"
        IN  /\ todo' = todo \ {raw}
            /\ nUserOps' = nUserOps + 1
            /\ IF exc = "none"
               THEN /\ user_fit_dic' =
                          DictSet(user_fit_dic, user_id, alg_fit(process_rated(user_alg, user_id)))
                    /\ log' = log \cup {<<"process_rated:copy", user_id>>, <<"fit:copy", user_id>>}
                    /\ UNCHANGED <<pc, outcome, ret>>
               ELSE IF Dispose("try", exc) = "swallow"
               THEN /\ user_fit_dic' = fit_OnSkip(user_fit_dic, user_id)
                    /\ log' = log \cup {<<"process_rated:copy", user_id>>, <<"warning", user_id>>}
                    /\ UNCHANGED <<pc, outcome, ret>>
               ELSE /\ Raise(exc)
                    /\ log' = log \cup {<<"process_rated:copy", user_id>>}
                    /\ UNCHANGED user_fit_dic
    /\ UNCHANGED <<env, algorithm, calls, op, test_set, methodology, save_fit,
                   user_id_list, promised, all_users, out, handle, nLoad, nRelease,
                   emitted, n_recs, algcalls, gtrace>>

\* fit(), lines 133-136: free the loaded items, return self.
fit_End ==
    /\ pc = "loop" /\ op = "fit" /\ todo = {}
    /\ Release
    /\ pc' = "done"
    /\ outcome' = "returned"
    /\ ret' = [kind |-> "self", recs |-> <<>>]
    /\ promised' = Promise("fit", save_fit, user_id_list, methodology, log, promised)
    /\ UNCHANGED <<env, algorithm, user_fit_dic, calls, op, test_set, methodology,
                   save_fit, user_id_list, all_users, todo, out, nLoad, nUserOps, log,
                   emitted, n_recs, algcalls, gtrace>>

\* ------------------------------------------------------------- rank, predict

\* One predict/rank call on the model of a user: the filter_list handed to it,
\* the items it scored, and the instance it was made on, as it was then.
AlgCallOf(user_id, f, scored, alg) ==
    [user |-> user_id, filter |-> f, scored |-> scored, alg |-> alg]

\* Whether the chosen algorithm implements the call: an algorithm that does not
\* raises NotPredictionAlgorithm from predict, NotRankingAlgorithm from rank.
Supports(kind, call) ==
    IF call = "predict" THEN kind \in {"both", "predict"} ELSE kind \in {"both", "rank"}

CapabilityError(call) ==
    IF call = "predict" THEN "NotPredictionAlgorithm" ELSE "NotRankingAlgorithm"

\* The algorithm call an operation makes, and the container it returns.
AlgCall(o) == IF o \in {"predict", "fit_predict"} THEN "predict" ELSE "rank"
Container(o) == IF o \in {"predict", "fit_predict"} THEN "Prediction" ELSE "Rank"

\* Variant of NotFitted: the check is missing.
NotFitted_NoCheck(d) == FALSE

\* rank/predict, lines 158 and 219: the check of the Fit Registry.
NotFitted(d) == Cardinality(DOMAIN d) = 0

\* rank/predict, lines 158-159 and 219-220: no fit was made.
Serve_NotFitted(o) ==
    /\ rs = "cb"
    /\ Idle
    /\ NotFitted(user_fit_dic)
    /\ \E a \in Args(FALSE, o = "rank") : Enter(o, a.test, a.m, a.sf, a.list, a.n, {})
    /\ pc' = "done"
    /\ outcome' = "NotFittedAlg"
    /\ UNCHANGED <<env, algorithm, user_fit_dic, promised, handle, nLoad, nRelease>>

\* rank/predict, lines 161-171 and 222-232: resolve the users, load, start the loop.
Serve_Begin(o) ==
    /\ rs = "cb"
    /\ Idle
    /\ ~NotFitted(user_fit_dic)
    /\ \E a \in Args(FALSE, o = "rank") :
        Enter(o, a.test, a.m, a.sf, a.list, a.n, resolve_users(a.test, a.list))
    /\ Load
    /\ pc' = "loop"
    /\ outcome' = "running"
    /\ UNCHANGED <<env, algorithm, user_fit_dic, promised, nRelease>>

\* rank/predict, lines 174-191 and 235-253: one user.
Serve_User(o) ==
    /\ pc = "loop" /\ op = o
    /\ \E raw \in todo :
        LET user_id == str(raw)
            user_train == get_user_interactions(train_set, user_id)
            f == filter_list(methodology, user_id, train_set, test_set)
            user_fitted_alg == DictGet(user_fit_dic, user_id)
        IN  /\ todo' = todo \ {raw}
            /\ nUserOps' = nUserOps + 1
            /\ IF user_fitted_alg # None
               THEN IF Supports(algKind, AlgCall(o))
                    THEN \E scored \in SUBSET Candidates(f, user_train) :
                         \E e \in Emit(AlgCall(o), user_id, scored, n_recs) :
                            /\ out' = extend(out, Records(user_id, e))
                            /\ emitted' = [emitted EXCEPT ![user_id] = @ \o Records(user_id, e)]
                            /\ log' = log \cup {<<AlgCall(o), user_id>>}
                            /\ algcalls' = algcalls \cup
                                  {AlgCallOf(user_id, f, scored, user_fitted_alg)}
                            /\ UNCHANGED <<pc, outcome, ret>>
                    ELSE /\ Raise(CapabilityError(AlgCall(o)))
                         /\ log' = log \cup {<<AlgCall(o), user_id>>}
                         /\ algcalls' = algcalls \cup {AlgCallOf(user_id, f, {}, user_fitted_alg)}
                         /\ UNCHANGED <<out, emitted>>
               ELSE /\ log' = log \cup {<<"warning", user_id>>}
                    /\ UNCHANGED <<out, emitted, pc, outcome, ret, algcalls>>
    /\ UNCHANGED <<env, algorithm, user_fit_dic, calls, op, test_set, methodology,
                   save_fit, user_id_list, promised, all_users, handle, nLoad, nRelease,
                   n_recs, gtrace>>

\* rank/predict/fit_predict/fit_rank after the loop: build the container, free
\* the loaded items, return.
Serve_End(o) ==
    /\ pc = "loop" /\ op = o /\ todo = {}
    /\ ret' = from_list(Container(o), out)
    /\ Release
    /\ pc' = "done"
    /\ outcome' = "returned"
    /\ promised' = Promise(o, save_fit, user_id_list, methodology, log, promised)
    /\ UNCHANGED <<env, algorithm, user_fit_dic, calls, op, test_set, methodology,
                   save_fit, user_id_list, all_users, todo, out, nLoad, nUserOps, log,
                   emitted, n_recs, algcalls, gtrace>>

rank_NotFitted == Serve_NotFitted("rank")
rank_Begin == Serve_Begin("rank")
rank_User == Serve_User("rank")
rank_End == Serve_End("rank")

predict_NotFitted == Serve_NotFitted("predict")
predict_Begin == Serve_Begin("predict")
predict_User == Serve_User("predict")
predict_End == Serve_End("predict")

\* ------------------------------------------------------ fit_predict, fit_rank

\* Lines 297-302 and 368-373: the instance that is processed and fitted.
FitTarget(sf) == IF sf THEN "copy" ELSE "base"

\* Variant of SkipEntry: the sentinel is never stored.
SkipEntry_Never(d, sf, user_id) == d

\* Variant of SkipEntry: the sentinel is stored whatever save_fit is.
SkipEntry_Always(d, sf, user_id) == DictSet(d, user_id, None)

\* Lines 311-312 and 382-383: the registry after a user was skipped.  With
\* save_fit the copy is in the registry since line 299, before it is processed.
SkipEntry(d, sf, user_id) == IF sf THEN DictSet(d, user_id, None) ELSE d

\* fit_predict/fit_rank, lines 278-288 and 349-359.
FitServe_Begin(o) ==
    /\ rs = "cb"
    /\ Idle
    /\ \E a \in Args(TRUE, o = "fit_rank") :
        Enter(o, a.test, a.m, a.sf, a.list, a.n, resolve_users(a.test, a.list))
    /\ Load
    /\ pc' = "loop"
    /\ outcome' = "running"
    /\ UNCHANGED <<env, algorithm, user_fit_dic, promised, nRelease>>

\* fit_predict/fit_rank, lines 291-323 and 362-394: one user.
FitServe_User(o) ==
    /\ pc = "loop" /\ op = o
    /\ \E raw \in todo, at \in SkipPlaces :
        LET user_id == str(raw)
            user_train == get_user_interactions(train_set, user_id)
            target == FitTarget(save_fit)
            alg == IF target = "copy" THEN deepcopy(algorithm) ELSE algorithm
            fitted == alg_fit(process_rated(alg, user_id))
            f == filter_list(methodology, user_id, train_set, test_set)
            \* the exception of the try block, then of the predict/rank call
            exc1 == IF user_id \in skip THEN "UserSkipAlgFit" ELSE "none"
            exc2 == IF Supports(algKind, AlgCall(o)) THEN "none" ELSE CapabilityError(AlgCall(o))
            where == IF exc1 # "none" THEN "try" ELSE "call"
            exc == IF exc1 # "none" THEN exc1 ELSE exc2
            \* the instance as the exception leaves it
            reached == IF exc1 # "none" THEN AfterSkip(alg, user_id, at) ELSE fitted
            tried == {<<IF target = "copy" THEN "process_rated:copy"
                                           ELSE "process_rated:base", user_id>>} \cup
                     (IF exc1 = "none" \/ at = "fit"
                      THEN {<<IF target = "copy" THEN "fit:copy" ELSE "fit:base", user_id>>}
                      ELSE {}) \cup
                     (IF exc1 = "none" THEN {<<AlgCall(o), user_id>>} ELSE {})
        IN  /\ exc1 = "none" => at = "fit"
            /\ todo' = todo \ {raw}
            /\ nUserOps' = nUserOps + 1
            /\ algorithm' = IF target = "base" THEN reached ELSE algorithm
            /\ IF exc = "none"
               THEN /\ user_fit_dic' = IF target = "copy"
                                       THEN DictSet(user_fit_dic, user_id, fitted)
                                       ELSE user_fit_dic
                    /\ log' = log \cup tried
                    /\ \E scored \in SUBSET Candidates(f, user_train) :
                       \E e \in Emit(AlgCall(o), user_id, scored, n_recs) :
                         /\ out' = extend(out, Records(user_id, e))
                         /\ emitted' = [emitted EXCEPT ![user_id] = @ \o Records(user_id, e)]
                         /\ algcalls' = algcalls \cup {AlgCallOf(user_id, f, scored, fitted)}
                    /\ UNCHANGED <<pc, outcome, ret>>
               ELSE IF Dispose(where, exc) = "swallow"
               THEN /\ user_fit_dic' =
                          SkipEntry(IF target = "copy"
                                    THEN DictSet(user_fit_dic, user_id, reached)
                                    ELSE user_fit_dic, save_fit, user_id)
                    /\ log' = log \cup tried \cup {<<"warning", user_id>>}
                    /\ UNCHANGED <<out, emitted, pc, outcome, ret, algcalls>>
               ELSE /\ user_fit_dic' = IF target = "copy"
                                       THEN DictSet(user_fit_dic, user_id, reached)
                                       ELSE user_fit_dic
                    /\ log' = log \cup tried
                    /\ algcalls' = algcalls \cup
                          (IF exc1 = "none" THEN {AlgCallOf(user_id, f, {}, reached)} ELSE {})
                    /\ Raise(exc)
                    /\ UNCHANGED <<out, emitted>>
    /\ UNCHANGED <<env, calls, op, test_set, methodology, save_fit, user_id_list,
                   promised, all_users, handle, nLoad, nRelease, n_recs, gtrace>>

fit_predict_Begin == FitServe_Begin("fit_predict")
fit_predict_User == FitServe_User("fit_predict")
fit_predict_End == Serve_End("fit_predict")

fit_rank_Begin == FitServe_Begin("fit_rank")
fit_rank_User == FitServe_User("fit_rank")
fit_rank_End == Serve_End("fit_rank")

\* ------------------------------------------------------------- GraphBasedRS

\* self.graph.to_ratings(): the interactions the graph records, as a store.
to_ratings(g) == g

\* filter_dict: None (none = TRUE) or the candidates of every user.
NoFilterDict == [none |-> TRUE, map |-> NoStore]

\* TestRatingsMethodology.filter_all(train, test, result_as_iter_dict=True):
\* for every user the items filter_single gives.
filter_all(train, test) ==
    [none |-> FALSE, map |-> [u \in Users |-> filter_single(u, train, test)]]

\* One call a GraphBasedRS operation makes, or the warning it logs.
GEvent(call, users, n, fd, g, test) ==
    [call |-> call, users |-> users, n |-> n, filter |-> fd, graph |-> g, test |-> test]

\* Variant of FilterCalls: one filter_single call per evaluated user.
FilterCalls_PerUser(m, g, test, users) ==
    IF m = "None" THEN <<>>
    ELSE LET RECURSIVE each(_)
             each(todoUsers) ==
                 IF todoUsers = {} THEN <<>>
                 ELSE LET raw == CHOOSE r \in todoUsers : TRUE
                      IN  <<GEvent("filter_single", {raw}, NoN, NoFilterDict,
                                   to_ratings(g), test)>> \o each(todoUsers \ {raw})
         IN  each(users)

\* predict/rank, lines 469-472 and 503-506: the calls made on the methodology.
FilterCalls(m, g, test, users) ==
    IF m = "None" THEN <<>>
    ELSE <<GEvent("filter_all", {}, NoN, NoFilterDict, to_ratings(g), test)>>

\* Variant of filter_dict: the two stores are handed to filter_all in the wrong
\* order.
filter_dict_Swapped(m, g, test) ==
    IF m = "None" THEN NoFilterDict ELSE filter_all(test, to_ratings(g))

\* predict/rank, lines 469-472 and 503-506: filter_dict.
filter_dict(m, g, test) ==
    IF m = "None" THEN NoFilterDict ELSE filter_all(to_ratings(g), test)

\* The records of the users of `order`, user after user.
RECURSIVE Flatten(_, _, _, _)
Flatten(call, order, pick, n) ==
    IF order = <<>> THEN <<>>
    ELSE LET u == str(Head(order))
             e == IF call = "rank" THEN Cut(Sorted(u, pick[Head(order)]), n)
                  ELSE Sorted(u, pick[Head(order)])
         IN  Records(u, e) \o Flatten(call, Tail(order), pick, n)

\* algorithm.predict / algorithm.rank of a graph based algorithm: the lists it
\* may return for a batch of users.  The user nodes of the graph are the
\* string ids; a user is covered when the algorithm finds items to score for
\* it among its candidates, the filter or the items it has no interaction with.
GraphResults(call, users, g, n, fd) ==
    LET cand(raw) == IF fd.none THEN Items \ g[str(raw)] ELSE fd.map[str(raw)]
        rankable == {raw \in users : raw[1] = "str" /\ cand(raw) # {}}
        picks(K) == {pk \in [K -> (SUBSET Items) \ {{}}] : \A r \in K : pk[r] \subseteq cand(r)}
        orders(K) == {o \in Emissions(K) : Len(o) = Cardinality(K)}
    IN  UNION {{Flatten(call, o, pk, n) : o \in orders(K), pk \in picks(K)} :
               K \in SUBSET rankable}

\* set(total_rank.user_id_column)
rank_users(total) == {<<"str", n>> : n \in {m \in UserIdx : \E i \in DOMAIN total : total[i][1] = DecStr[m]}}

\* Variant of RankWarning: the second warning whenever the rank is not empty.
RankWarning_Always(total, users) ==
    IF Len(total) = 0
    THEN <<GEvent("warning:no_items", {}, NoN, NoFilterDict, NoStore, NoStore)>>
    ELSE <<GEvent("warning:dropped", users \ rank_users(total), NoN, NoFilterDict,
                  NoStore, NoStore)>>

\* rank, lines 512-519: the warning logged after the rank was built.
RankWarning(total, users) ==
    IF Len(total) = 0
    THEN <<GEvent("warning:no_items", {}, NoN, NoFilterDict, NoStore, NoStore)>>
    ELSE IF Cardinality(rank_users(total)) # Cardinality(users)
    THEN <<GEvent("warning:dropped", users \ rank_users(total), NoN, NoFilterDict,
                  NoStore, NoStore)>>
    ELSE <<>>

\* GraphBasedRS.predict (lines 465-480) and GraphBasedRS.rank (lines 499-523):
\* resolve the users, compute the filters of the batch, call the algorithm
\* once, build the container, for rank log the warning, return.
graph_Serve(o) ==
    /\ rs = "graph"
    /\ Idle
    /\ \E a \in Args(FALSE, o = "rank") :
        LET users == resolve_users(a.test, a.list)
            fd == filter_dict(a.m, graph, a.test)
            made == FilterCalls(a.m, graph, a.test, users) \o
                    <<GEvent("algorithm." \o o, users, a.n, fd, graph, NoStore)>>
        IN  /\ test_set' = a.test
            /\ methodology' = a.m
            /\ user_id_list' = a.list
            /\ n_recs' = a.n
            /\ all_users' = users
            /\ IF Supports(algKind, o)
               THEN \E total \in GraphResults(o, users, graph, a.n, fd) :
                        /\ out' = total
                        /\ ret' = from_list(Container(o), total)
                        /\ gtrace' = made \o (IF o = "rank" THEN RankWarning(total, users)
                                                ELSE <<>>)
                        /\ outcome' = "returned"
               ELSE /\ out' = <<>>
                    /\ ret' = NoResult
                    /\ gtrace' = made
                    /\ outcome' = CapabilityError(o)
    /\ calls' = calls + 1
    /\ op' = "graph_" \o o
    /\ pc' = "done"
    /\ UNCHANGED <<env, algorithm, user_fit_dic, save_fit, promised, todo, handle, nLoad,
                   nRelease, nUserOps, log, emitted, algcalls>>

graph_predict == graph_Serve("predict")
graph_rank == graph_Serve("rank")

Next ==
    \/ Discard
    \/ graph_predict
    \/ graph_rank
    \/ fit_WithSubset
    \/ fit_Begin
    \/ fit_User
    \/ fit_End
    \/ rank_NotFitted
    \/ rank_Begin
    \/ rank_User
    \/ rank_End
    \/ predict_NotFitted
    \/ predict_Begin
    \/ predict_User
    \/ predict_End
    \/ fit_predict_Begin
    \/ fit_predict_User
    \/ fit_predict_End
    \/ fit_rank_Begin
    \/ fit_rank_User
    \/ fit_rank_End

Spec == Init /\ [][Next]_vars

\* A ContentBasedRS on which fit() is the only call made: fit after fit on the
\* same train store, the same users raising UserSkipAlgFit each time.
FitInit == Init /\ rs = "cb"

FitNext ==
    \/ Discard
    \/ fit_Begin
    \/ fit_User
    \/ fit_End

SpecFit == FitInit /\ [][FitNext]_vars

\* A GraphBasedRS: predict and rank are the operations it has, on the graph it
\* was built with.
GraphInit == Init /\ rs = "graph"

GraphNext ==
    \/ Discard
    \/ graph_predict
    \/ graph_rank

SpecGraph == GraphInit /\ [][GraphNext]_vars

\* ------------------------------------------------------- evaluation objects

Metrics == {"Precision"}

\* The Ratings with one record for each user of `order`, in that order: the
\* user_map numbers the users as their first records come.
RatingsOf(order) ==
    IF order = <<>> THEN EmptyRatings
    ELSE [recs |-> [k \in DOMAIN order |-> <<order[k], "a", Score(order[k], "a")>>],
          user_map |-> [u \in {order[k] : k \in DOMAIN order} |->
                           (CHOOSE k \in DOMAIN order : order[k] = u) - 1]]

\* The predictions and the ground truths of the evaluation.
Collections == {RatingsOf(o) : o \in Emissions(Users)}
\* Two lists of two collections: the first starts with a collection whose
\* user_map differs from that of the collections of the second, the second
\* ends with an empty collection.
TwoFolds ==
    {<<RatingsOf(<<"2", "1">>), RatingsOf(<<"1">>)>>,
     <<RatingsOf(<<"1">>), EmptyRatings>>}

\* The lists handed to EvalModel: of at most MaxFolds collections, or one of
\* TwoFolds.
CollLists == UNION {[1..n -> Collections] : n \in 0..MaxFolds} \cup TwoFolds

\* len(ratings)
len(r) == Len(r.recs)

\* set(ratings.unique_user_id_column)
unique_user_id_column(r) == {r.recs[i][1] : i \in DOMAIN r.recs}

\* user_map.convert_seq_str2int(ids): the indices of the users, as Python ints.
convert_seq_str2int(map, ids) == {<<"int", map[u]>> : u \in ids}

\* A string id, as an element of a set of identifiers.
StrId(u) == <<"str", CHOOSE n \in DOMAIN DecStr : DecStr[n] = u>>

\* ratings.filter_ratings(ids): a new collection with the records of the users
\* whose index is among ids, same user_map.  Whether a string among ids selects
\* the user of that id is up to the implementation (byStr).
filter_ratings(r, ids, byStr) ==
    [recs |-> SelectSeq(r.recs, LAMBDA rec :
                  \/ <<"int", r.user_map[rec[1]]>> \in ids
                  \/ byStr /\ StrId(rec[1]) \in ids),
     user_map |-> r.user_map]

\* Split.__init__
Split(first_set, second_set) == [first |-> first_set, second |-> second_set]

valid_first_name == {"train", "pred", "first"}
valid_second_name == {"test", "truth", "second"}
AttrNames == valid_first_name \cup valid_second_name \cup {"other"}

\* Reading an attribute of a Split: None for a name that is no alias.
Split_getattr(sp, name) ==
    IF name \in valid_first_name THEN [none |-> FALSE, value |-> sp.first]
    ELSE IF name \in valid_second_name THEN [none |-> FALSE, value |-> sp.second]
    ELSE [none |-> TRUE, value |-> EmptyRatings]

\* Variant of Split_setattr: every name that is no alias of the first set
\* assigns the second.
Split_setattr_ElseSecond(sp, name, value) ==
    IF name \in valid_first_name THEN [sp EXCEPT !.first = value]
    ELSE [sp EXCEPT !.second = value]

\* Split.__setattr__
Split_setattr(sp, name, value) ==
    IF name \in valid_first_name THEN [sp EXCEPT !.first = value]
    ELSE IF name \in valid_second_name THEN [sp EXCEPT !.second = value]
    ELSE sp

\* metric.perform(split): the users the metric gives a row, those of the
\* predictions of the split.
perform(metric, sp) == unique_user_id_column(Split_getattr(sp, "pred").value)

\* Variant of InitError: only the first test.
InitError_BothEmpty(p, t) == IF Len(p) = 0 /\ Len(t) = 0 THEN "ValueError" ELSE "none"

\* EvalModel.__init__, lines 37-40: the check of the two lists.
InitError(p, t) ==
    IF Len(p) = 0 /\ Len(t) = 0 THEN "ValueError"
    ELSE IF Len(p) # Len(t) THEN "ValueError"
    ELSE "none"

\* Variant of Evaluated: only the prediction is looked at.
Evaluated_PredOnly(pred, truth) == len(pred) # 0

\* eval_metrics, line 79: the pairs a metric is computed on.
Evaluated(pred, truth) == len(pred) # 0 /\ len(truth) # 0

\* eval_metrics, lines 83-85
common_user_ids(pred, truth) ==
    unique_user_id_column(pred) \cap unique_user_id_column(truth)

\* eval_metrics, lines 87-93: the Split handed to the metric.
PairSplit(pred, truth, byStr) ==
    LET ids == common_user_ids(pred, truth)
        prediction_user_idxs == convert_seq_str2int(pred.user_map, ids)
        truth_user_idxs == convert_seq_str2int(truth.user_map, ids)
    IN  Split(filter_ratings(pred, prediction_user_idxs, byStr),
              filter_ratings(truth, truth_user_idxs, byStr))

\* eval_metrics, lines 76-95: the perform calls of one metric, over the pairs
\* zip gives.
metric_result_list(metric, preds, truths, byStr) ==
    LET n == IF Len(preds) < Len(truths) THEN Len(preds) ELSE Len(truths)
        all == [k \in 1..n |->
                   [metric |-> metric, fold |-> k,
                    split |-> PairSplit(preds[k], truths[k], byStr)]]
    IN  SelectSeq(all, LAMBDA c : Evaluated(preds[c.fold], truths[c.fold]))

\* eval_metrics, lines 73-118: metric after metric; pd.concat of an empty list
\* of results raises ValueError.
RECURSIVE eval_metrics(_, _, _, _)
eval_metrics(metrics, preds, truths, byStr) ==
    IF metrics = <<>> THEN [outcome |-> "returned", calls |-> <<>>]
    ELSE LET mine == metric_result_list(Head(metrics), preds, truths, byStr)
         IN  IF mine = <<>> THEN [outcome |-> "ValueError", calls |-> <<>>]
             ELSE LET rest == eval_metrics(Tail(metrics), preds, truths, byStr)
                  IN  [outcome |-> rest.outcome,
                       calls |-> IF rest.outcome = "returned" THEN mine \o rest.calls
                                 ELSE mine]

\* eval_metrics, lines 111-126: the users of the users result.
final_result_users(done) ==
    UNION {perform(done[i].metric, done[i].split) : i \in DOMAIN done}

\* eval_metrics, lines 128-135: the fold rows of the system result.
final_result_system(done) ==
    IF done = <<>> THEN 0
    ELSE Cardinality({i \in DOMAIN done : done[i].metric = done[1].metric})

\* Variant of fit_Kept: the filtered lists replace the lists of the EvalModel.
fit_Kept_Local(stored, local) == local

\* EvalModel.fit, lines 95-102: pred_list and truth_list are locals of the
\* call; the lists of the EvalModel are not assigned.
fit_Kept(stored, local) == stored

\* No recommender is at work.
RSOff ==
    /\ rs = "none"
    /\ train_set = NoStore
    /\ skip = {}
    /\ algKind = "both"
    /\ graph = NoStore
    /\ algorithm = FreshAlg
    /\ user_fit_dic = <<>>
    /\ calls = 0
    /\ pc = "idle"
    /\ op = "none"
    /\ test_set = NoStore
    /\ methodology = "None"
    /\ save_fit = FALSE
    /\ user_id_list = NoList
    /\ promised = "none"
    /\ all_users = {}
    /\ todo = {}
    /\ out = <<>>
    /\ handle = "unbound"
    /\ nLoad = 0
    /\ nRelease = 0
    /\ nUserOps = 0
    /\ log = {}
    /\ emitted = NoEmitted
    /\ outcome = "returned"
    /\ ret = NoResult
    /\ n_recs = NoN
    /\ algcalls = {}
    /\ gtrace = <<>>

\* Before EvalModel(pred_list, truth_list, metric_list) is called, or with a
\* Split(first_set, second_set) just constructed.
EvalInit ==
    /\ RSOff
    /\ constructed = FALSE
    /\ pred_list = <<>>
    /\ truth_list = <<>>
    /\ metric_list = <<>>
    /\ ecalls = 0
    /\ fit_args = NoFits
    /\ eoutcome = "none"
    /\ handed = NoHanded
    /\ performed = <<>>
    /\ users_result = {}
    /\ sys_result = 0
    /\ yaml_report_result = NoReport
    /\ assigned = NoAssign
    /\ \/ /\ obj = "EvalModel"
          /\ ctor \in [pred : CollLists, truth : CollLists,
                       metrics : {m \in Emissions(Metrics) : Len(m) <= 1}]
          /\ str_filter \in BOOLEAN
          /\ split = Split(EmptyRatings, EmptyRatings)
       \/ /\ obj = "Split"
          /\ ctor = NoCtor
          /\ str_filter = FALSE
          /\ \E first_set, second_set \in Collections : split = Split(first_set, second_set)

\* EvalModel.__init__, lines 37-46
EvalModel_init ==
    /\ obj = "EvalModel" /\ ~constructed /\ eoutcome = "none"
    /\ IF InitError(ctor.pred, ctor.truth) # "none"
       THEN /\ eoutcome' = InitError(ctor.pred, ctor.truth)
            /\ UNCHANGED <<constructed, pred_list, truth_list, metric_list>>
       ELSE /\ pred_list' = ctor.pred
            /\ truth_list' = ctor.truth
            /\ metric_list' = ctor.metrics
            /\ constructed' = TRUE
            /\ eoutcome' = "returned"
    /\ yaml_report_result' = NoReport
    /\ UNCHANGED <<rsvars, obj, ctor, str_filter, ecalls, fit_args, handed, performed,
                   users_result, sys_result, split, assigned>>

\* EvalModel.append_metric, line 70
EvalModel_append_metric ==
    /\ obj = "EvalModel" /\ constructed /\ ecalls < MaxCalls
    /\ \E metric \in Metrics : metric_list' = Append(metric_list, metric)
    /\ ecalls' = ecalls + 1
    /\ eoutcome' = "returned"
    /\ UNCHANGED <<rsvars, obj, ctor, constructed, pred_list, truth_list, str_filter,
                   fit_args, handed, performed, users_result, sys_result,
                   yaml_report_result, split, assigned>>

\* EvalModel.fit, lines 95-109
EvalModel_fit ==
    /\ obj = "EvalModel" /\ constructed /\ ecalls < MaxCalls
    /\ \E l \in UserLists :
        LET user_id_list_set == {<<"str", raw[2]>> : raw \in l.ids}
            filtered(list) ==
                IF l.given
                THEN [k \in DOMAIN list |-> filter_ratings(list[k], user_id_list_set, str_filter)]
                ELSE list
        IN  \E preds \in {filtered(pred_list)}, truths \in {filtered(truth_list)} :
            \E r \in {eval_metrics(metric_list, preds, truths, str_filter)} :
            /\ ecalls' = ecalls + 1
            /\ fit_args' = [n |-> fit_args.n + 1,
                            subset |-> fit_args.subset + (IF l.given THEN 1 ELSE 0),
                            last |-> l]
            /\ handed' = [pred |-> preds, truth |-> truths]
            /\ performed' = r.calls
            /\ eoutcome' = r.outcome
            /\ IF r.outcome = "returned"
               THEN /\ users_result' = final_result_users(r.calls)
                    /\ sys_result' = final_result_system(r.calls)
                    /\ yaml_report_result' = [set |-> TRUE, rows |-> final_result_system(r.calls)]
               ELSE /\ users_result' = {}
                    /\ sys_result' = 0
                    /\ UNCHANGED yaml_report_result
            /\ pred_list' = fit_Kept(pred_list, preds)
            /\ truth_list' = fit_Kept(truth_list, truths)
    /\ UNCHANGED <<rsvars, obj, ctor, constructed, metric_list, str_filter, split, assigned>>

\* split.<name> = value
Split_assign ==
    /\ obj = "Split"
    /\ \E name \in AttrNames, value \in Collections :
        /\ split' = Split_setattr(split, name, value)
        /\ assigned' = [name |-> name, value |-> value, before |-> split]
    /\ UNCHANGED <<rsvars, obj, ctor, constructed, pred_list, truth_list, metric_list,
                   str_filter, ecalls, fit_args, eoutcome, handed, performed, users_result,
                   sys_result, yaml_report_result>>

EvalNext ==
    \/ EvalModel_init
    \/ EvalModel_append_metric
    \/ EvalModel_fit
    \/ Split_assign

SpecEval == EvalInit /\ [][EvalNext]_vars

\* =================================================================== claims

\* The evaluated users the loop of the current call has been through.
Reached(u) == \E raw \in all_users \ todo : DecStr[raw[2]] = u

\* The records of one user in a list of records, in order.
RecsOf(l, u) == SelectSeq(l, LAMBDA r : r[1] = u)

InCall(ops) == pc # "idle" /\ op \in ops
Ended == pc = "done"
Returned == pc = "done" /\ outcome = "returned"
TrainUsers == {u \in Users : train_set[u] # {}}
Unfitted(u) == u \notin DOMAIN user_fit_dic \/ user_fit_dic[u] = None
CalledOn(u) == <<"predict", u>> \in log \/ <<"rank", u>> \in log
Warned(u) == <<"warning", u>> \in log

\* C1: fit(), called as declared, never ends with an error because a user
\* raised UserSkipAlgFit, and
\* when it has returned every user of the train store has an entry in the Fit
\* Registry: None for the users that raised, an instance fitted for that user
\* for every other one.
C1_FitSkipDoesNotAbort ==
    (InCall({"fit"}) /\ ~user_id_list.given) =>
        /\ outcome \in {"running", "returned"}
        /\ Ended =>
            /\ todo = {}
            /\ \A u \in TrainUsers :
                /\ u \in DOMAIN user_fit_dic
                /\ u \in skip => user_fit_dic[u] = None
                /\ u \notin skip => /\ user_fit_dic[u].kind = "alg"
                                    /\ user_fit_dic[u].fitFor = u

\* A fit() that returned over a train store with a skipped and a fitted user.
C1_Witness ==
    /\ InCall({"fit"}) /\ Returned
    /\ \E u, v \in TrainUsers : u \in skip /\ v \notin skip

\* C2: in predict and rank, a user whose registry entry is None and a user with
\* no entry are handled the same way: the model is not called, a warning is
\* logged, the user adds no record; an error can only come from the model of a
\* fitted user, and a call that returns holds the records of every fitted user.
C2_SkippedAndAbsentAlike ==
    InCall({"predict", "rank"}) =>
        /\ \A u \in Users : (Reached(u) /\ Unfitted(u)) =>
              /\ Warned(u)
              /\ ~CalledOn(u)
              /\ emitted[u] = <<>>
              /\ RecsOf(out, u) = <<>>
        /\ outcome \notin {"running", "returned", "NotFittedAlg"} =>
              \E v \in Users : CalledOn(v) /\ ~Unfitted(v)
        /\ Returned =>
              \A v \in Users : (Reached(v) /\ ~Unfitted(v)) =>
                  /\ CalledOn(v)
                  /\ RecsOf(ret.recs, v) = emitted[v]

\* A predict() that returned after passing a user whose entry is None and a
\* user without entry.
C2_Witness ==
    /\ InCall({"predict"}) /\ Returned
    /\ \E u, v \in Users :
        /\ Reached(u) /\ u \notin DOMAIN user_fit_dic
        /\ Reached(v) /\ v \in DOMAIN user_fit_dic /\ user_fit_dic[v] = None

\* C3: predict and rank on an empty Fit Registry end with NotFittedAlg before
\* anything is loaded and before any user is looked at, whatever the test
\* store, the user list and the methodology, and return nothing.
C3_NotFittedFailsFast ==
    (InCall({"predict", "rank"}) /\ DOMAIN user_fit_dic = {}) =>
        /\ Ended
        /\ outcome = "NotFittedAlg"
        /\ nLoad = 0 /\ handle = "unbound"
        /\ nUserOps = 0 /\ log = {}
        /\ ret = NoResult

\* A rank() with a user list and a methodology that ended with NotFittedAlg.
C3_Witness ==
    /\ InCall({"rank"}) /\ outcome = "NotFittedAlg"
    /\ user_id_list.given /\ user_id_list.ids # {} /\ methodology = "TestRatings"

\* C4: process_rated and fit are only ever called on a per-user deep copy; the
\* base algorithm of the recommender is never processed or fitted.
C4_BaseNeverFitted ==
    /\ algorithm = FreshAlg
    /\ \A e \in log : e[1] \notin {"process_rated:base", "fit:base"}

\* C5: in fit_predict and fit_rank a UserSkipAlgFit never reaches the caller:
\* the skipped user adds no record, the loop goes on to the other users, and
\* the container returned holds the records of every user whose fit succeeded.
C5_SkipStaysInLoop ==
    InCall({"fit_predict", "fit_rank"}) =>
        /\ outcome # "UserSkipAlgFit"
        /\ \A u \in Users : (Reached(u) /\ u \in skip) =>
              /\ Warned(u)
              /\ ~CalledOn(u)
              /\ emitted[u] = <<>>
              /\ RecsOf(out, u) = <<>>
        /\ Ended => (todo = {} \/ outcome \in {"NotPredictionAlgorithm", "NotRankingAlgorithm"})
        /\ Returned =>
              /\ todo = {}
              /\ \A v \in Users : (Reached(v) /\ v \notin skip) =>
                    /\ CalledOn(v)
                    /\ RecsOf(ret.recs, v) = emitted[v]

\* A fit_predict() that returned records of one user after skipping another.
C5_Witness ==
    /\ InCall({"fit_predict"}) /\ Returned
    /\ \E u, v \in Users :
        /\ Reached(u) /\ u \in skip
        /\ Reached(v) /\ v \notin skip /\ RecsOf(ret.recs, v) # <<>>

\* C6: no step of predict, of rank, or of fit_predict/fit_rank with
\* save_fit = False changes the Fit Registry, neither its keys nor its values,
\* whether the call goes on, returns or raises.
C6_RegistryUntouched ==
    [][(op' \in {"predict", "rank"} \/ (op' \in {"fit_predict", "fit_rank"} /\ ~save_fit'))
         => user_fit_dic' = user_fit_dic]_vars

\* A fit_rank(save_fit=False) over a non-empty registry that skipped a user and
\* then ended with an error.
C6_Witness ==
    /\ InCall({"fit_rank"}) /\ ~save_fit /\ Ended /\ outcome = "NotRankingAlgorithm"
    /\ DOMAIN user_fit_dic # {}
    /\ \E u \in Users : Warned(u)

\* C7: once a fit() or a fit_rank() with default arguments has returned after
\* fitting at least one user, rank() and predict() do not raise NotFittedAlg.
C7_FitRankFits ==
    (InCall({"predict", "rank"}) /\ outcome = "NotFittedAlg") => promised = "none"

\* C8: a call that enters its body and gets past the check of the registry loads the content
\* exactly once, before the first user, and frees it exactly once, after the
\* last one: inside the loop one load and no release, at the end one of each.
C8_HandleOncePerCall ==
    /\ pc = "loop" => (nLoad = 1 /\ nRelease = 0)
    /\ nUserOps > 0 => nLoad = 1
    /\ (Ended /\ rs = "cb" /\ outcome \notin {"NotFittedAlg", "TypeError"}) =>
          (nLoad = 1 /\ nRelease = 1)

\* C9: when a call has ended, by return or by an error, the content it loaded
\* has been freed.
C9_HandleFreedOnExit ==
    Ended => (handle = "unbound" /\ nRelease = nLoad)

\* C10: a capability error of the algorithm's predict/rank and NotFittedAlg
\* end the call with that very error and without a container; only
\* UserSkipAlgFit is turned into a warning.
C10_OnlySkipSwallowed ==
    InCall({"predict", "rank", "fit_predict", "fit_rank"}) =>
        /\ (algKind = "rank" /\ \E u \in Users : <<"predict", u>> \in log) =>
              (Ended /\ outcome = "NotPredictionAlgorithm")
        /\ (algKind = "predict" /\ \E u \in Users : <<"rank", u>> \in log) =>
              (Ended /\ outcome = "NotRankingAlgorithm")
        /\ (op \in {"predict", "rank"} /\ DOMAIN user_fit_dic = {}) =>
              (Ended /\ outcome = "NotFittedAlg")
        /\ outcome \notin {"running", "returned"} =>
              /\ ret = NoResult
              /\ outcome \in {"NotPredictionAlgorithm", "NotRankingAlgorithm", "NotFittedAlg"}
        /\ \A u \in Users : Warned(u) => ~CalledOn(u)

\* A fit_predict() that skipped one user with a warning and then ended with
\* the capability error of another user's predict.
C10_Witness ==
    /\ InCall({"fit_predict"}) /\ outcome = "NotPredictionAlgorithm"
    /\ nUserOps = 2
    /\ \E u \in Users : Warned(u)

\* Every evaluated user of the current call is skipped: its fit raises in
\* fit_predict/fit_rank, its registry entry is None or missing in predict/rank.
NoUserServed ==
    \A raw \in all_users :
        IF op \in {"fit_predict", "fit_rank"}
        THEN DecStr[raw[2]] \in skip
        ELSE Unfitted(DecStr[raw[2]])

\* C11: when no evaluated user can add a record, because the evaluated set is
\* empty or because every evaluated user is skipped, fit_predict, fit_rank, and
\* predict/rank on a non-empty registry do not raise and return an empty
\* container of their kind.
C11_EmptyResultReturned ==
    (/\ InCall({"predict", "rank", "fit_predict", "fit_rank"})
     /\ op \in {"predict", "rank"} => DOMAIN user_fit_dic # {}
     /\ NoUserServed) =>
        /\ outcome \in {"running", "returned"}
        /\ out = <<>>
        /\ Ended => /\ todo = {}
                    /\ ret.kind = (IF op \in {"predict", "fit_predict"} THEN "Prediction" ELSE "Rank")
                    /\ ret.recs = <<>>

\* A fit_predict() over users that were all skipped, returned with an empty
\* Prediction.
C11_Witness ==
    /\ InCall({"fit_predict"}) /\ Returned
    /\ all_users # {} /\ NoUserServed
    /\ ret.kind = "Prediction" /\ ret.recs = <<>>

\* The users with an interaction in the test store of the call, and the
\* string forms of a set of identifiers.
TestUsers == {<<"str", n>> : n \in {m \in UserIdx : test_set[DecStr[m]] # {}}}
Forms(ids) == {DecStr[raw[2]] : raw \in ids}

\* The users the call has worked on: those of its log, of its model calls and
\* of its records.
Touched ==
    {e[2] : e \in log} \cup {c.user : c \in algcalls} \cup {out[i][1] : i \in DOMAIN out}
        \cup {ret.recs[i][1] : i \in DOMAIN ret.recs}

\* C12: predict, rank, fit_predict and fit_rank of ContentBasedRS and predict
\* and rank of GraphBasedRS evaluate the users of the test store when
\* user_id_list is None and the users of user_id_list otherwise: no other user
\* is worked on or has a record in the container, a call that returns has been
\* through every one of them, and the graph algorithm is handed that very set.
C12_EvaluatedUsers ==
    (/\ InCall({"predict", "rank", "fit_predict", "fit_rank", "graph_predict", "graph_rank"})
     /\ outcome # "NotFittedAlg") =>
        /\ all_users = (IF user_id_list.given THEN user_id_list.ids ELSE TestUsers)
        /\ Touched \subseteq Forms(all_users)
        /\ (rs = "cb" /\ Returned) => {e[2] : e \in log} = Forms(all_users)
        /\ rs = "graph" =>
              \E i \in DOMAIN gtrace :
                  /\ gtrace[i].call \in {"algorithm.predict", "algorithm.rank"}
                  /\ gtrace[i].users = all_users

\* A rank() with a user list that returned records while a user of the test
\* store, not in the list, was left alone.
C12_Witness ==
    /\ InCall({"rank"}) /\ Returned
    /\ user_id_list.given /\ ret.recs # <<>>
    /\ \E u \in Users : test_set[u] # {} /\ u \notin Touched

\* The users the current call of fit has attempted to fit.
Attempted == {e[2] : e \in {x \in log : x[1] = "process_rated:copy"}}

\* C13 as stated: fit attempts a fit for every user of the train store when no
\* subset is supplied and for exactly the users of the subset when one is
\* supplied, who are then the only ones to get a registry entry from the call.
C13_FitScope_AsStated ==
    (InCall({"fit"}) /\ Ended) =>
        Attempted = (IF user_id_list.given THEN Forms(user_id_list.ids) ELSE TrainUsers)

\* C13, amended: fit takes no subset.  A call that passes one ends with
\* TypeError without attempting any user; a call of fit() attempts users of the
\* train store only, and when it has returned it has attempted every one of
\* them and each has a registry entry.
C13_FitScope ==
    InCall({"fit"}) =>
        /\ user_id_list.given =>
              (Ended /\ outcome = "TypeError" /\ Attempted = {} /\ nUserOps = 0 /\ nLoad = 0)
        /\ ~user_id_list.given =>
              /\ Attempted \subseteq TrainUsers
              /\ Attempted \subseteq DOMAIN user_fit_dic
              /\ Ended => (outcome = "returned" /\ Attempted = TrainUsers)

\* A fit() that returned after attempting both users of the train store.
C13_Witness ==
    /\ InCall({"fit"}) /\ Returned /\ ~user_id_list.given
    /\ Attempted = Users

\* C14: in predict, rank, fit_predict and fit_rank of ContentBasedRS the
\* filter handed to the model of a user is None when the methodology is None
\* and otherwise the set of the items filter_single gives for that user, the
\* train store of the recommender and the test store of the call; every call
\* of a model is handed a filter by that one rule.
C14_FilterHanded ==
    InCall({"predict", "rank", "fit_predict", "fit_rank"}) =>
        /\ \A c \in algcalls :
              /\ (methodology = "None") = c.filter.none
              /\ methodology = "None" => c.filter.items = {}
              /\ methodology # "None" =>
                    c.filter.items = filter_single(c.user, train_set, test_set)
        /\ \A u \in Users : CalledOn(u) => \E c \in algcalls : c.user = u

\* A fit_rank() with a methodology whose model call was handed a non-empty
\* filter for a user without interactions in the train store.
C14_Witness ==
    /\ InCall({"fit_rank"}) /\ methodology = "TestRatings"
    /\ \E c \in algcalls : c.filter.items # {} /\ train_set[c.user] = {}

\* The candidate items of a user in the current call: the items of the
\* methodology, or without one the items the user has not rated in train.
CandidatesOf(u) == IF methodology = "None" THEN Items \ train_set[u] ELSE test_set[u]

\* C15: in predict and rank, a user with a fitted model has at least zero and
\* at most as many records in the result as it has candidate items; a user
\* whose filter is empty has none, and that is no error.
C15_RecordsWithinCandidates ==
    InCall({"predict", "rank"}) =>
        \A u \in Users : ~Unfitted(u) =>
            /\ Len(RecsOf(out, u)) <= Cardinality(CandidatesOf(u))
            /\ Len(RecsOf(ret.recs, u)) <= Cardinality(CandidatesOf(u))
            /\ (methodology # "None" /\ test_set[u] = {}) => RecsOf(out, u) = <<>>

\* The scores of a list of records never go up.
NonIncreasing(l) == \A i, j \in DOMAIN l : i < j => l[i][3] >= l[j][3]

\* C16: in every Rank returned by rank or fit_rank, of ContentBasedRS or by
\* rank of GraphBasedRS, the records of one user have non-increasing scores,
\* and there are at most n_recs of them when n_recs is given.
C16_RankOrdered ==
    (InCall({"rank", "fit_rank", "graph_rank"}) /\ Returned) =>
        \A u \in Users :
            /\ NonIncreasing(RecsOf(ret.recs, u))
            /\ n_recs.given => Len(RecsOf(ret.recs, u)) <= n_recs.n

\* The eligible candidates of a user in the current call: the items its model
\* was able to score.
Eligible(u) == UNION {c.scored : c \in {x \in algcalls : x.user = u}}

\* C17: when rank or fit_rank is called with an n_recs larger than the number
\* of eligible candidates of a user, the Rank returned holds exactly the
\* eligible items of that user, one record each.
C17_AllEligibleReturned ==
    (InCall({"rank", "fit_rank"}) /\ Returned /\ n_recs.given) =>
        \A u \in Users : (CalledOn(u) /\ n_recs.n > Cardinality(Eligible(u))) =>
            /\ Len(RecsOf(ret.recs, u)) = Cardinality(Eligible(u))
            /\ {ret.recs[i][2] : i \in {j \in DOMAIN ret.recs : ret.recs[j][1] = u}} = Eligible(u)

\* The number of records the models of a set of users emitted in this call.
RECURSIVE EmittedBy(_)
EmittedBy(us) ==
    IF us = {} THEN 0
    ELSE LET u == CHOOSE x \in us : TRUE IN Len(emitted[u]) + EmittedBy(us \ {u})

CallsNamed(name) == {i \in DOMAIN gtrace : gtrace[i].call = name}

\* C19: predict and rank of GraphBasedRS make one batched pass.  With a
\* methodology filter_all is called once, on the ratings of the graph and the
\* test store of the call, and filter_single never; the algorithm's predict
\* (for predict) or rank (for rank) is called once, after it, with the whole
\* evaluated set, the graph, n_recs and the mapping filter_all gave.  Without a
\* methodology filter_all is not called and the mapping handed over is None.
C19_OneBatchedPass ==
    InCall({"graph_predict", "graph_rank"}) =>
        LET mine == IF op = "graph_predict" THEN "algorithm.predict" ELSE "algorithm.rank"
            other == IF op = "graph_predict" THEN "algorithm.rank" ELSE "algorithm.predict"
        IN  /\ CallsNamed("filter_single") = {}
            /\ Cardinality(CallsNamed("filter_all")) = (IF methodology = "None" THEN 0 ELSE 1)
            /\ Cardinality(CallsNamed(mine)) = 1
            /\ CallsNamed(other) = {}
            /\ \A i \in CallsNamed("filter_all") :
                  /\ gtrace[i].graph = graph
                  /\ gtrace[i].test = test_set
                  /\ \A j \in CallsNamed(mine) : i < j
            /\ \A j \in CallsNamed(mine) :
                  /\ gtrace[j].users = all_users
                  /\ gtrace[j].graph = graph
                  /\ gtrace[j].n = n_recs
                  /\ gtrace[j].filter.none = (methodology = "None")
                  /\ methodology # "None" =>
                        \A u \in Users :
                            gtrace[j].filter.map[u] = filter_single(u, graph, test_set)

\* A rank() of GraphBasedRS over two users with a methodology and an n_recs.
C19_Witness ==
    /\ InCall({"graph_rank"}) /\ Returned
    /\ methodology = "TestRatings" /\ n_recs.given
    /\ Cardinality(all_users) = Cardinality(Users)
    /\ CallsNamed("filter_all") # {}

\* The users the container returned has records of, as the identifiers the
\* container holds, and the users named by the warning of the current call.
Covered == {<<"str", n>> : n \in {m \in UserIdx : RecsOf(ret.recs, DecStr[m]) # <<>>}}
WarnedNoItems == CallsNamed("warning:no_items") # {}
WarnedDropped == CallsNamed("warning:dropped") # {}
DroppedNamed == UNION {gtrace[i].users : i \in CallsNamed("warning:dropped")}

\* C20 as stated: rank of GraphBasedRS logs the 'no items for any user' warning
\* exactly when the rank covers no user, the 'dropped users' warning, naming the
\* requested users missing from the rank, exactly when the rank covers some but
\* not all of the requested users, and no warning when every requested user is
\* covered; the rank is returned in every case.
C20_RankWarnings_AsStated ==
    (InCall({"graph_rank"}) /\ algKind # "predict") =>
        /\ Returned /\ ret.kind = "Rank"
        /\ WarnedNoItems <=> Covered = {}
        /\ WarnedDropped <=> (Covered # {} /\ Covered \subseteq all_users /\ Covered # all_users)
        /\ WarnedDropped => DroppedNamed = all_users \ Covered
        /\ all_users \subseteq Covered => (~WarnedNoItems /\ ~WarnedDropped)

\* C20, amended: as stated, except that no warning is logged when at least one
\* user is requested and every requested user is covered; a rank requested for
\* no user covers no user and logs the 'no items for any user' warning.
C20_RankWarnings ==
    (InCall({"graph_rank"}) /\ algKind # "predict") =>
        /\ Returned /\ ret.kind = "Rank"
        /\ Cardinality(CallsNamed("warning:no_items")) + Cardinality(CallsNamed("warning:dropped")) <= 1
        /\ WarnedNoItems <=> Covered = {}
        /\ WarnedDropped <=> (Covered # {} /\ Covered \subseteq all_users /\ Covered # all_users)
        /\ WarnedDropped => DroppedNamed = all_users \ Covered
        /\ (all_users # {} /\ all_users \subseteq Covered) => (~WarnedNoItems /\ ~WarnedDropped)
        /\ all_users = {} => WarnedNoItems

\* A rank() of GraphBasedRS that returned records of one of two requested
\* users and named the other in the 'dropped users' warning.
C20_Witness ==
    /\ InCall({"graph_rank"}) /\ Returned
    /\ Covered # {} /\ WarnedDropped
    /\ DroppedNamed # {} /\ DroppedNamed = all_users \ Covered

\* C21: predict of GraphBasedRS logs the warnings rank logs: the 'no items for
\* any user' warning when the Prediction returned for a request of some users
\* covers none of them, and the 'dropped users' warning, naming the requested
\* users missing from it, when it covers some but not all of them.
C21_PredictWarnings ==
    (InCall({"graph_predict"}) /\ Returned /\ all_users # {}) =>
        /\ Covered = {} => WarnedNoItems
        /\ (Covered # {} /\ Covered \subseteq all_users /\ Covered # all_users) =>
              (WarnedDropped /\ DroppedNamed = all_users \ Covered)

\* The filter mappings handed to the algorithm by the current GraphBasedRS call.
HandedMaps ==
    {gtrace[j].filter : j \in CallsNamed("algorithm.predict") \cup CallsNamed("algorithm.rank")}

C23_InitChecksLists ==
    (obj = "EvalModel" /\ eoutcome # "none") =>
        LET bad == \/ Len(ctor.pred) = 0
                   \/ Len(ctor.truth) = 0
                   \/ Len(ctor.pred) # Len(ctor.truth)
        IN  /\ constructed <=> ~bad
            /\ ~constructed =>
                  /\ eoutcome = "ValueError"
                  /\ ecalls = 0
                  /\ pred_list = <<>> /\ truth_list = <<>> /\ metric_list = <<>>
            /\ (constructed /\ ecalls = 0) =>
                  /\ eoutcome = "returned"
                  /\ pred_list = ctor.pred
                  /\ truth_list = ctor.truth
                  /\ metric_list = ctor.metrics

\* A construction that raised ValueError for two non-empty lists of different
\* lengths.
C23_Witness ==
    /\ obj = "EvalModel" /\ ~constructed /\ eoutcome = "ValueError"
    /\ Len(ctor.pred) > 0 /\ Len(ctor.truth) > 0
    /\ Len(ctor.pred) # Len(ctor.truth)

\* The users with a record in both collections of the k-th pair handed to the
\* MetricEvaluator by the last fit.
InBoth(k) ==
    unique_user_id_column(handed.pred[k]) \cap unique_user_id_column(handed.truth[k])

\* The records of a collection that belong to the users of a set, in order.
Restricted(r, us) == SelectSeq(r.recs, LAMBDA rec : rec[1] \in us)

\* C24: in an evaluation every metric is computed only on pairs of a
\* prediction and a truth that are both non-empty, and on each of the two
\* restricted to the records of the users present in both; the users result
\* holds no user that is missing from the prediction or from the truth of
\* every pair, and no user outside the user_id_list given to fit; when a metric
\* was computed at all, it was computed on every pair with two non-empty sides.
C24_CommonUsersOnly ==
    (obj = "EvalModel" /\ fit_args.n > 0) =>
        /\ Len(handed.pred) = Len(handed.truth)
        /\ \A i \in DOMAIN performed :
              LET c == performed[i]
              IN  /\ c.fold \in DOMAIN handed.pred
                  /\ handed.pred[c.fold].recs # <<>>
                  /\ handed.truth[c.fold].recs # <<>>
                  /\ c.split.first.recs = Restricted(handed.pred[c.fold], InBoth(c.fold))
                  /\ c.split.second.recs = Restricted(handed.truth[c.fold], InBoth(c.fold))
        /\ users_result \subseteq UNION {InBoth(k) : k \in DOMAIN handed.pred}
        /\ \A u \in users_result :
              /\ \E k \in DOMAIN pred_list :
                    u \in unique_user_id_column(pred_list[k])
                             \cap unique_user_id_column(truth_list[k])
              /\ fit_args.last.given => u \in Forms(fit_args.last.ids)
        /\ performed # <<>> =>
              \A k \in DOMAIN handed.pred :
                  (handed.pred[k].recs # <<>> /\ handed.truth[k].recs # <<>>) =>
                      \E i \in DOMAIN performed : performed[i].fold = k

\* A fit over two pairs: one was skipped for its empty truth, in the other a
\* user of the prediction is missing from the truth, the metric was computed
\* without that user, and the common user has another index in the prediction
\* than in the truth.
C24_Witness ==
    /\ obj = "EvalModel" /\ fit_args.n > 0 /\ Len(handed.pred) = 2
    /\ \E k \in DOMAIN handed.pred : handed.pred[k].recs # <<>> /\ handed.truth[k].recs = <<>>
    /\ \E i \in DOMAIN performed :
          LET c == performed[i]
          IN  /\ c.split.first.recs # handed.pred[c.fold].recs
              /\ c.split.first.recs # <<>>
              /\ \E u \in InBoth(c.fold) :
                    handed.pred[c.fold].user_map[u] # handed.truth[c.fold].user_map[u]
    /\ users_result # {}

\* The users the Fit Registry holds None for.
NoneUsers == {u \in DOMAIN user_fit_dic : user_fit_dic[u] = None}

\* C25: when fit() is called again after fit() on the same train store, with
\* the same users raising UserSkipAlgFit, no step of the second call, or of any
\* later one, changes the key set of the Fit Registry or the set of users it
\* holds None for: they stay what the first call left.
C25_FitIdempotent ==
    [][calls' >= 2 =>
          /\ DOMAIN user_fit_dic' = DOMAIN user_fit_dic
          /\ {u \in DOMAIN user_fit_dic' : user_fit_dic'[u] = None} = NoneUsers]_vars

\* A second fit() in a row that returned, over a train store with a user that
\* is fitted and a user that is skipped.
C25_Witness ==
    /\ calls = 2 /\ InCall({"fit"}) /\ Returned
    /\ \E u, v \in TrainUsers :
          /\ u \in NoneUsers
          /\ v \in DOMAIN user_fit_dic /\ v \notin NoneUsers

\* What reading the attribute `name` of the Split returns.
Read(name) == Split_getattr(split, name)

\* C26: reading train, pred or first of a Split returns its first set, reading
\* test, truth or second its second set.  After an assignment through a name of
\* one set every name of that set returns the value assigned and every name of
\* the other set what it returned before; after an assignment to any other
\* name both sets are what they were.
C26_SplitAliases ==
    obj = "Split" =>
        /\ \A name \in {"train", "pred", "first"} :
              ~Read(name).none /\ Read(name).value = split.first
        /\ \A name \in {"test", "truth", "second"} :
              ~Read(name).none /\ Read(name).value = split.second
        /\ assigned.name \in {"train", "pred", "first"} =>
              /\ \A name \in {"train", "pred", "first"} : Read(name).value = assigned.value
              /\ \A name \in {"test", "truth", "second"} :
                    Read(name).value = assigned.before.second
        /\ assigned.name \in {"test", "truth", "second"} =>
              /\ \A name \in {"test", "truth", "second"} : Read(name).value = assigned.value
              /\ \A name \in {"train", "pred", "first"} :
                    Read(name).value = assigned.before.first
        /\ assigned.name \notin {"-", "train", "pred", "first", "test", "truth", "second"} =>
              split = assigned.before

\* A Split whose first set was replaced by an assignment to pred, with a
\* second set that is neither the old nor the new first set.
C26_Witness ==
    /\ obj = "Split" /\ assigned.name = "pred"
    /\ assigned.value # assigned.before.first
    /\ split.second # assigned.value /\ split.second # assigned.before.first
    /\ Read("train").value = assigned.value

\* C27: when fit, or fit_predict/fit_rank with save_fit=True, has ended, by a
\* return or by an error, every entry of the Fit Registry that is not None is
\* an instance that has processed the rated items of its user and was fitted
\* on them, and every user whose fit raised UserSkipAlgFit in the call maps to
\* None.
C27_RegistryInvariant ==
    (/\ rs = "cb" /\ Ended
     /\ op = "fit" \/ (op \in {"fit_predict", "fit_rank"} /\ save_fit)) =>
        /\ \A u \in DOMAIN user_fit_dic :
              user_fit_dic[u] # None =>
                  /\ user_fit_dic[u].kind = "alg"
                  /\ user_fit_dic[u].procFor = u
                  /\ user_fit_dic[u].fitFor = u
        /\ \A u \in Users :
              Warned(u) => (u \in DOMAIN user_fit_dic /\ user_fit_dic[u] = None)

\* A fit_rank(save_fit=True) that an error of the algorithm's rank ended, after
\* one user was skipped and another was fitted and stored.
C27_Witness ==
    /\ InCall({"fit_rank"}) /\ save_fit /\ Ended /\ outcome = "NotRankingAlgorithm"
    /\ \E u, v \in Users :
          /\ Warned(u) /\ user_fit_dic[u] = None
          /\ <<"fit:copy", v>> \in log /\ ~Warned(v)
          /\ v \in DOMAIN user_fit_dic /\ user_fit_dic[v] # None

\* The users, by the string form of their identifier, that the loop of the
\* current call has been through.
UsersDone == Forms(all_users \ todo)

\* C28: within one call of predict, rank, fit_predict or fit_rank every
\* evaluated user, identified by the string form of its id, is processed at
\* most once: the loop has made no more iterations than there are users it
\* has been through, and the model of a user has emitted records at most once,
\* so the user has no more records than items its model scored.
C28_OneShot ==
    InCall({"predict", "rank", "fit_predict", "fit_rank"}) =>
        /\ nUserOps <= Cardinality(UsersDone)
        /\ \A u \in Users : Len(emitted[u]) <= Cardinality(Eligible(u))

\* C29: every predict/rank call of an orchestration call is made on an
\* instance that has processed the rated items of the user of the call and
\* was then fitted on them, in predict and rank after fit as well as inside
\* fit_predict and fit_rank; fit is attempted for a user only on an instance
\* that went through process_rated for that user, and a user whose fit raised
\* has no predict/rank call.
C29_LifecycleOrder ==
    InCall({"fit", "predict", "rank", "fit_predict", "fit_rank"}) =>
        /\ \A c \in algcalls :
              /\ c.alg.kind = "alg"
              /\ c.alg.procFor = c.user
              /\ c.alg.fitFor = c.user
        /\ \A u \in Users :
              /\ <<"fit:copy", u>> \in log => <<"process_rated:copy", u>> \in log
              /\ <<"fit:base", u>> \in log => <<"process_rated:base", u>> \in log
              /\ (op \in {"fit_predict", "fit_rank"} /\ CalledOn(u)) =>
                    \/ <<"process_rated:copy", u>> \in log /\ <<"fit:copy", u>> \in log
                    \/ <<"process_rated:base", u>> \in log /\ <<"fit:base", u>> \in log
              /\ Warned(u) => ~CalledOn(u)

\* A predict() after a fit(): the model it called was fitted for the user by
\* the earlier call.
C29_Witness ==
    /\ InCall({"predict"}) /\ promised = "fit"
    /\ \E c \in algcalls : c.alg.fitFor = c.user /\ c.scored # {}

\* The users with a record in both collections of some pair given to the
\* EvalModel at construction.
AllCommonUsers ==
    UNION {unique_user_id_column(ctor.pred[k]) \cap unique_user_id_column(ctor.truth[k]) :
               k \in DOMAIN ctor.pred \cap DOMAIN ctor.truth}

\* C30: EvalModel.fit leaves the prediction list and the truth list of the
\* EvalModel alone: after any fit calls, with or without user_id_list, they are
\* the lists given at construction, and a fit() without user_id_list hands the
\* whole lists to the evaluation, which then covers every user with records on
\* both sides, whatever user_id_list earlier calls were given.
C30_FitKeepsLists ==
    (obj = "EvalModel" /\ constructed) =>
        /\ pred_list = ctor.pred
        /\ truth_list = ctor.truth
        /\ (fit_args.n > 0 /\ ~fit_args.last.given) =>
              /\ handed.pred = ctor.pred
              /\ handed.truth = ctor.truth
              /\ performed # <<>> => users_result = AllCommonUsers

\* A fit() without user_id_list, after a fit with one, that gave every user a
\* row.
C30_Witness ==
    /\ obj = "EvalModel" /\ constructed
    /\ fit_args.n = 2 /\ fit_args.subset = 1 /\ ~fit_args.last.given
    /\ performed # <<>>
    /\ users_result = Users

====
